---- MODULE Spec2Model ----
(***************************************************************************)
(* A model of CyberCrawl.py: the DarkWebScraper crawl engine (get_page,    *)
(* extract_onion_links, scrape_content, crawl_onion) and the is_scraping   *)
(* flag of DarkWebScraperGUI that the Stop button clears.                  *)
(*                                                                         *)
(* Python strings are modelled as sequences of one-character strings, so   *)
(* that startswith, the substring test and the host regular expression     *)
(* are computed, not assumed.                                              *)
(***************************************************************************)
EXTENDS Integers, Sequences, FiniteSets, TLC

VARIABLES
    start_urls,     \* crawl_onion argument: the seed list
    keywords,       \* crawl_onion argument (<<>> models None / empty list)
    selectors,      \* crawl_onion argument (<<>> models None / empty list)
    max_items,      \* DarkWebScraper.max_items
    max_depth,      \* DarkWebScraper.max_depth
    max_pages,      \* crawl_onion argument
    q,              \* the queue.Queue of (url, depth) entries
    visited,        \* the visited set
    results,        \* the results list
    pages_crawled,  \* the pages_crawled counter
    pc,             \* "loop": in the while loop, "done": returned, "raised": an exception escaped
    ret,            \* the returned list (<<>> until the return)
    is_scraping,    \* DarkWebScraperGUI.is_scraping
    net_gets,       \* number of session.get calls issued so far
    sleeps,         \* number of time.sleep(self.delay) calls made so far
    fetch_log,      \* the get_page calls of the latest loop iteration
    trace,          \* one entry per location marked visited, in order
    call,           \* a single method call made on the scraper: arguments and outcome
    progress,       \* DarkWebScraperGUI.progress_var
    start_button,   \* state of the Start button
    stop_button,    \* state of the Stop button
    workers,        \* one entry per thread start_scraping has spawned: where it is in scrape_data
    after_q,        \* the callbacks posted with root.after(0, ...) and not yet run
    scraped_data,   \* DarkWebScraperGUI.scraped_data
    tree,           \* the rows of results_tree
    log             \* the lines of the activity log, as (level, message)

vars == <<start_urls, keywords, selectors, max_items, max_depth, max_pages,
          q, visited, results, pages_crawled, pc, ret, is_scraping,
          net_gets, sleeps, fetch_log, trace, call,
          progress, start_button, stop_button, workers, after_q, scraped_data, tree, log>>

\* the variables of the crawl_onion invocation
crawlVars == <<start_urls, q, visited, results, pages_crawled, pc, ret, fetch_log, trace>>

\* the widgets and fields of DarkWebScraperGUI other than is_scraping
guiVars == <<progress, start_button, stop_button, workers, after_q, scraped_data, tree, log>>

----------------------------------------------------------------------------
(* Bounds of the checked instances *)

MaxSeeds == 2
MaxPages == 4
MaxItems == 2
MaxDepth == 2
MaxSelectors == 2
MaxAnchors == 2
MaxResults == 2
MaxCalls == 3
MaxRuns == 2
MaxClears == 1

(* Program constants *)
MinTextLen == 20
MaxTextLen == 500

----------------------------------------------------------------------------
(* Strings *)

Min(a, b) == IF a <= b THEN a ELSE b
Max(a, b) == IF a >= b THEN a ELSE b

StartsWith(s, p) == Len(s) >= Len(p) /\ SubSeq(s, 1, Len(p)) = p

Contains(s, p) ==
    \E i \in 1..(Len(s) - Len(p) + 1) : SubSeq(s, i, i + Len(p) - 1) = p

\* s[:n] of Python, negative n included
PySliceTo(s, n) ==
    IF n >= 0 THEN SubSeq(s, 1, Min(n, Len(s)))
              ELSE SubSeq(s, 1, Max(0, Len(s) + n))

HTTP  == <<"h","t","t","p",":","/","/">>
HTTPS == <<"h","t","t","p","s",":","/","/">>
FTP   == <<"f","t","p",":","/","/">>
ONION == <<".","o","n","i","o","n">>

----------------------------------------------------------------------------
(* The locations and documents of the modelled network *)

UrlA == HTTP  \o <<"a">> \o ONION \o <<"/">>            \* http://a.onion/
UrlB == HTTPS \o <<"b">> \o ONION \o <<"/">>            \* https://b.onion/
UrlC == HTTP  \o <<"c">> \o ONION \o <<"/">>            \* http://c.onion/
UrlD == HTTPS \o <<"b">> \o ONION \o <<"/","d">> \o ONION  \* https://b.onion/d.onion
UrlE == HTTP  \o <<"e">> \o ONION \o <<"/">>            \* http://e.onion/
UrlS == HTTP  \o <<"s">> \o ONION \o <<"/">>            \* http://s.onion/
UrlFtp      == FTP  \o <<"f">> \o ONION \o <<"/">>      \* ftp://f.onion/
UrlClear    == HTTP \o <<"w",".","n","e","t","/">>      \* http://w.net/
UrlFtpClear == FTP  \o <<"w",".","n","e","t","/">>      \* ftp://w.net/

HrefRootRel == <<"/","d">> \o ONION                     \* /d.onion
HrefPathRel == <<"e">> \o ONION \o <<"/","x">>          \* e.onion/x
HrefHttpd   == <<"h","t","t","p","d">> \o ONION \o <<"/","x">>   \* httpd.onion/x

Text(id, len, words) == [id |-> id, len |-> len, words |-> words]
Elem(tag, text, href, css) == [tag |-> tag, text |-> text, href |-> href, css |-> css]

DocA1 == [anchors |-> <<UrlC, UrlClear, UrlA>>,
          elems |-> << Elem("p", Text("a1", 25, {"market"}), UrlC, {".post"}),
                       Elem("div", Text("a2", 600, {}), <<>>, {}),
                       Elem("span", Text("a3", 5, {"market"}), <<>>, {".post"}) >>]
DocA2 == [anchors |-> <<UrlC>>,
          elems |-> << Elem("p", Text("a4", 30, {"forum"}), <<>>, {}) >>]
DocB  == [anchors |-> <<HrefRootRel, HrefPathRel>>,
          elems |-> << Elem("h1", Text("b1", 40, {"market"}), HrefRootRel, {".post"}) >>]
DocC  == [anchors |-> <<UrlA, UrlD, UrlE>>,
          elems |-> << Elem("li", Text("c1", 20, {}), <<>>, {}) >>]
DocD  == [anchors |-> <<>>,
          elems |-> << Elem("a", Text("d1", 22, {"market"}), UrlA, {".post"}),
                       Elem("p", Text("d2", 21, {}), <<>>, {}) >>]

DocS  == [anchors |-> <<>>,
          elems |-> << Elem("div", Text("s1", 19, {"Market"}), <<>>, {".item"}),
                       Elem("p", Text("s2", 20, {"MARKET"}), <<>>, {".item", ".post"}),
                       Elem("a", Text("s3", 501, {"forum"}), UrlC, {".post"}),
                       Elem("li", Text("s4", 0, {}), <<>>, {}) >>]

\* the bodies a GET of url can be answered with when it succeeds
Web(url) ==
    CASE url = UrlA -> {DocA1, DocA2}
      [] url = UrlB -> {DocB}
      [] url = UrlC -> {DocC}
      [] url = UrlD -> {DocD}
      [] url = UrlS -> {DocS}
      [] OTHER -> {}

\* what the network can do with one GET of url: <<>> is a failed request
\* (transport error or non-2xx status), <<d>> a 2xx answer with body d
Responses(url) == {<<>>} \cup {<<d>> : d \in Web(url)}

----------------------------------------------------------------------------
(* DarkWebScraper.get_page *)

FetchResult(soup, kind, gets, naps, raised) ==
    [soup |-> soup, kind |-> kind, gets |-> gets, sleeps |-> naps, raised |-> raised]

\* get_page sleeping in a finally clause
GetPageSleepAlways(url, resp) ==
    IF ~StartsWith(url, HTTP) /\ ~StartsWith(url, HTTPS)
    THEN FetchResult(<<>>, "InvalidScheme", 0, 0, FALSE)
    ELSE IF ~Contains(url, ONION)
    THEN FetchResult(<<>>, "DomainNotAllowed", 0, 0, FALSE)
    ELSE IF resp = <<>>
    THEN FetchResult(<<>>, "TransportError", 1, 1, FALSE)
    ELSE FetchResult(resp, "Ok", 1, 1, FALSE)

\* get_page without the domain marker test
GetPageNoDomainCheck(url, resp) ==
    IF ~StartsWith(url, HTTP) /\ ~StartsWith(url, HTTPS)
    THEN FetchResult(<<>>, "InvalidScheme", 0, 0, FALSE)
    ELSE IF resp = <<>>
    THEN FetchResult(<<>>, "TransportError", 1, 0, FALSE)
    ELSE FetchResult(resp, "Ok", 1, 1, FALSE)

\* get_page without the try / except around the request
GetPageNoCatch(url, resp) ==
    IF ~StartsWith(url, HTTP) /\ ~StartsWith(url, HTTPS)
    THEN FetchResult(<<>>, "InvalidScheme", 0, 0, FALSE)
    ELSE IF ~Contains(url, ONION)
    THEN FetchResult(<<>>, "DomainNotAllowed", 0, 0, FALSE)
    ELSE IF resp = <<>>
    THEN FetchResult(<<>>, "TransportError", 1, 0, TRUE)
    ELSE FetchResult(resp, "Ok", 1, 1, FALSE)

\* soup: <<>> for None, <<d>> for the parsed document; gets / sleeps: the
\* session.get and time.sleep calls the call made; raised: an exception
\* left get_page
GetPage(url, resp) ==
    IF ~StartsWith(url, HTTP) /\ ~StartsWith(url, HTTPS)
    THEN FetchResult(<<>>, "InvalidScheme", 0, 0, FALSE)
    ELSE IF ~Contains(url, ONION)
    THEN FetchResult(<<>>, "DomainNotAllowed", 0, 0, FALSE)
    ELSE IF resp = <<>>
    THEN FetchResult(<<>>, "TransportError", 1, 0, FALSE)
    ELSE FetchResult(resp, "Ok", 1, 1, FALSE)

----------------------------------------------------------------------------
(* DarkWebScraper.extract_onion_links *)

SchemeLen(s) ==
    IF StartsWith(s, HTTPS) THEN Len(HTTPS)
    ELSE IF StartsWith(s, HTTP) THEN Len(HTTP)
    ELSE 0

RECURSIVE HostEnd(_, _)
HostEnd(s, i) == IF i <= Len(s) /\ s[i] # "/" THEN HostEnd(s, i + 1) ELSE i - 1

\* group 1 of re.match(r"(http[s]?://[^/]+)", base_url); <<>> when there is no match
OnionHost(base_url) ==
    LET n == SchemeLen(base_url)
        e == HostEnd(base_url, n + 1)
    IN  IF n = 0 \/ e = n THEN <<>> ELSE SubSeq(base_url, 1, e)

\* every href kept, the marker test dropped
HrefKeptAny(href) == TRUE

\* the test `".onion" in href`
HrefKept(href) == Contains(href, ONION)

ExtractOnionLinks(doc, base_url) ==
    LET hrefs == {doc.anchors[i] : i \in DOMAIN doc.anchors}
        kept  == {h \in hrefs : HrefKept(h)}
        abs   == {h \in kept : StartsWith(h, <<"h","t","t","p">>)}
        rel   == {h \in kept \ abs : StartsWith(h, <<"/">>) /\ OnionHost(base_url) # <<>>}
    IN  abs \cup {OnionHost(base_url) \o h : h \in rel}

\* list(links): the orders in which a set can be listed
Listings(S) ==
    {s \in [1..Cardinality(S) -> S] : \A i, j \in 1..Cardinality(S) : i # j => s[i] # s[j]}

----------------------------------------------------------------------------
(* DarkWebScraper.scrape_content *)

DefaultTags == {"p", "div", "span", "h1", "h2", "li"}

Lower(w) ==
    CASE w = "Market" -> "market"
      [] w = "MARKET" -> "market"
      [] w = "FORUM"  -> "forum"
      [] OTHER        -> w

\* soup.select(sel): the matching elements in document order
Select(doc, sel) == SelectSeq(doc.elems, LAMBDA e : sel \in e.css)

\* soup.find_all(tags, limit=limit): a limit of 0 is "no limit"; a negative
\* limit stops after the first match
FindAll(doc, tags, limit) ==
    LET m == SelectSeq(doc.elems, LAMBDA e : e.tag \in tags)
    IN  IF limit = 0 THEN m
        ELSE IF limit < 0 THEN SubSeq(m, 1, Min(1, Len(m)))
        ELSE SubSeq(m, 1, Min(limit, Len(m)))

RECURSIVE FirstSelector(_, _, _, _)
FirstSelector(doc, sels, i, cap) ==
    IF i > Len(sels) THEN <<>>
    ELSE LET found == Select(doc, sels[i])
         IN  IF found # <<>> THEN PySliceTo(found, cap)
             ELSE FirstSelector(doc, sels, i + 1, cap)

Candidates(doc, sels, cap) ==
    LET elements == FirstSelector(doc, sels, 1, cap)
    IN  IF elements = <<>> THEN FindAll(doc, DefaultTags, cap) ELSE elements

\* the length filter with > for >=
QualifiesLonger(e, kws) ==
    /\ e.text.len > MinTextLen
    /\ kws = <<>> \/ \E i \in 1..Len(kws) : Lower(kws[i]) \in {Lower(w) : w \in e.text.words}

\* text.words: the words occurring in the text, as written there
Qualifies(e, kws) ==
    /\ e.text.len >= MinTextLen
    /\ kws = <<>> \/ \E i \in 1..Len(kws) : Lower(kws[i]) \in {Lower(w) : w \in e.text.words}

Truncate(text, n) == [text EXCEPT !.len = Min(@, n)]

RecordOf(e, url) ==
    [text |-> Truncate(e.text, MaxTextLen), link |-> e.href, tag |-> e.tag, source |-> url]

RECURSIVE RecordsOf(_, _, _)
RecordsOf(elements, kws, url) ==
    IF elements = <<>> THEN <<>>
    ELSE (IF Qualifies(Head(elements), kws) THEN <<RecordOf(Head(elements), url)>> ELSE <<>>)
         \o RecordsOf(Tail(elements), kws, url)

\* data: the returned list; call: what its get_page call did
ScrapeContent(url, kws, sels, cap, resp) ==
    LET g == GetPage(url, resp)
    IN  [data |-> IF g.soup = <<>> THEN <<>>
                  ELSE RecordsOf(Candidates(g.soup[1], sels, cap), kws, url),
         call |-> g]

----------------------------------------------------------------------------
(* DarkWebScraper.crawl_onion *)

SeedUniverse == {UrlA, UrlB, UrlClear, UrlFtpClear}

SeedLists == UNION {[1..n -> SeedUniverse] : n \in 0..MaxSeeds}

\* the (keywords, selectors) pairs a crawl is started with
Filters == { <<<< >>, << >>>>, <<<<"Market">>, <<".none", ".post">>>> }

\* the values of max_items and max_pages a crawl is started with
ItemCaps == {0, 1, MaxItems}
PageCaps == {0, 1, MaxPages}

Entry(url, depth) == <<url, depth>>

\* a stack instead of a queue
EnqueueFront(queue, entry) == <<entry>> \o queue

\* q.put(entry)
Enqueue(queue, entry) == Append(queue, entry)

\* a while condition that also stops at the item cap
LoopCondItemCap == q # <<>> /\ pages_crawled < max_pages /\ Len(results) < max_items

\* the while condition
LoopCond == q # <<>> /\ pages_crawled < max_pages

\* the continue without the visited test
ShouldSkipDepthOnly(url, depth) == depth > max_depth

\* the continue without the depth test
ShouldSkipVisitedOnly(url, depth) == url \in visited

\* the condition of the continue
ShouldSkip(url, depth) == url \in visited \/ depth > max_depth

\* the condition under which links are followed
\* the links of a page at max_depth followed as well
FollowLinksInclusive(depth) == depth <= max_depth

FollowLinks(depth) == depth < max_depth

\* pages_crawled counting the fetched pages only
PagesAfterFetchedOnly(n, g) == IF g.soup = <<>> THEN n ELSE n + 1

\* pages_crawled += 1, whatever get_page returned (g)
PagesAfter(n, g) == n + 1

\* the return without the truncation
ReturnedAll(res) == res

\* results[:self.max_items]
Returned(res) == PySliceTo(res, max_items)

\* results.extend(page_data)
Extend(res, page_data) == res \o page_data

CallOf(url, g) == [url |-> url, kind |-> g.kind, gets |-> g.gets, sleeps |-> g.sleeps]

RECURSIVE PutAll(_, _, _, _)
PutAll(queue, links, seen, depth) ==
    IF links = <<>> THEN queue
    ELSE PutAll(IF Head(links) \notin seen
                THEN Enqueue(queue, Entry(Head(links), depth))
                ELSE queue,
                Tail(links), seen, depth)

NoCall == [op |-> "none"]

\* log_message(message, level)
Logged(lines, level, message) == Append(lines, <<level, message>>)

(* The state in which the worker thread spawned by start_scraping has found
   the seeds and enters crawl_onion *)
Init ==
    /\ start_urls \in SeedLists
    /\ \E f \in Filters : keywords = f[1] /\ selectors = f[2]
    /\ max_items \in ItemCaps
    /\ max_depth \in -1..MaxDepth
    /\ max_pages \in PageCaps
    /\ q = PutAll(<<>>, start_urls, {}, 0)
    /\ visited = {}
    /\ results = <<>>
    /\ pages_crawled = 0
    /\ pc = "loop"
    /\ ret = <<>>
    /\ is_scraping = TRUE
    /\ net_gets = 0
    /\ sleeps = 0
    /\ fetch_log = <<>>
    /\ trace = <<>>
    /\ call = NoCall
    /\ progress = "Searching"
    /\ start_button = "disabled"
    /\ stop_button = "normal"
    /\ workers = <<"crawl">>
    /\ after_q = <<>>
    /\ scraped_data = <<>>
    /\ tree = <<>>
    /\ log = <<>>

\* one iteration that takes the continue
\* q.get() leaving the entry at the head of the queue
DequeuedPeek(queue) == queue

\* the queue after q.get()
Dequeued(queue) == Tail(queue)

crawl_skip ==
    /\ pc = "loop"
    /\ LoopCond
    /\ ShouldSkip(Head(q)[1], Head(q)[2])
    /\ q' = Dequeued(q)
    /\ fetch_log' = <<>>
    /\ UNCHANGED <<start_urls, keywords, selectors, max_items, max_depth, max_pages,
                   visited, results, pages_crawled, pc, ret, is_scraping,
                   net_gets, sleeps, trace, call, guiVars>>

\* one iteration that processes the dequeued location
crawl_visit ==
    /\ pc = "loop"
    /\ LoopCond
    /\ ~ShouldSkip(Head(q)[1], Head(q)[2])
    /\ LET url   == Head(q)[1]
           depth == Head(q)[2]
       IN  \E r1 \in Responses(url) :
           LET g1 == GetPage(url, r1)
           IN  \E r2 \in (IF g1.soup = <<>> THEN {<<>>} ELSE Responses(url)) :
               LET sc     == ScrapeContent(url, keywords, selectors, max_items, r2)
                   scraped == g1.soup # <<>> /\ ~g1.raised
                   raised == g1.raised \/ (scraped /\ sc.call.raised)
                   links  == IF scraped /\ ~raised /\ FollowLinks(depth)
                             THEN ExtractOnionLinks(g1.soup[1], url)
                             ELSE {}
                   data   == IF scraped /\ ~raised THEN sc.data ELSE <<>>
                   calls  == IF scraped THEN <<CallOf(url, g1), CallOf(url, sc.call)>>
                             ELSE <<CallOf(url, g1)>>
               IN  \E listing \in Listings(links) :
                   /\ visited' = visited \cup {url}
                   /\ results' = Extend(results, data)
                   /\ q' = PutAll(Dequeued(q), listing, visited', depth + 1)
                   /\ pages_crawled' = IF raised THEN pages_crawled ELSE PagesAfter(pages_crawled, g1)
                   /\ pc' = IF raised THEN "raised" ELSE "loop"
                   /\ net_gets' = net_gets + g1.gets + (IF scraped THEN sc.call.gets ELSE 0)
                   /\ sleeps' = sleeps + g1.sleeps + (IF scraped THEN sc.call.sleeps ELSE 0)
                   /\ fetch_log' = calls
                   /\ trace' = Append(trace, [url |-> url, depth |-> depth, kind |-> g1.kind,
                                              data |-> data, links |-> links])
    /\ UNCHANGED <<start_urls, keywords, selectors, max_items, max_depth, max_pages,
                   ret, is_scraping, call, guiVars>>

\* the loop ends and the list is returned
crawl_return ==
    /\ pc = "loop"
    /\ ~LoopCond
    /\ pc' = "done"
    /\ ret' = Returned(results)
    /\ UNCHANGED <<start_urls, keywords, selectors, max_items, max_depth, max_pages,
                   q, visited, results, pages_crawled, is_scraping,
                   net_gets, sleeps, fetch_log, trace, call, guiVars>>

(* DarkWebScraperGUI.stop_scraping: the Stop button is enabled exactly while
   is_scraping is set *)
stop_scraping ==
    /\ is_scraping
    /\ stop_button = "normal"
    /\ is_scraping' = FALSE
    /\ start_button' = "normal"
    /\ stop_button' = "disabled"
    /\ progress' = "Stopped"
    /\ log' = Logged(log, "WARNING", "Crawling stopped by user")
    /\ UNCHANGED <<start_urls, keywords, selectors, max_items, max_depth, max_pages,
                   q, visited, results, pages_crawled, pc, ret,
                   net_gets, sleeps, fetch_log, trace, call,
                   workers, after_q, scraped_data, tree>>

Next == crawl_skip \/ crawl_visit \/ crawl_return \/ stop_scraping

Spec == Init /\ [][Next]_vars

\* crawl_onion running by itself
NextCrawl == crawl_skip \/ crawl_visit \/ crawl_return

\* the thread in crawl_onion is never suspended for ever: whenever it has a
\* step to take, it takes one
SpecLive == Init /\ [][NextCrawl]_vars /\ WF_vars(NextCrawl)

----------------------------------------------------------------------------
(* Single calls of the scraper's methods.  Each of the specifications below
   starts with one call about to be made (call.state = "called") and every
   other part of the program at rest. *)

CrawlAtRest ==
    /\ start_urls = <<>>
    /\ max_depth = 1
    /\ max_pages = 0
    /\ q = <<>>
    /\ visited = {}
    /\ results = <<>>
    /\ pages_crawled = 0
    /\ pc = "idle"
    /\ ret = <<>>
    /\ fetch_log = <<>>
    /\ trace = <<>>

GuiAtRest ==
    /\ is_scraping = FALSE
    /\ progress = "Ready"
    /\ start_button = "normal"
    /\ stop_button = "disabled"
    /\ workers = <<>>
    /\ after_q = <<>>
    /\ scraped_data = <<>>
    /\ tree = <<>>
    /\ log = <<>>

(* scrape_content(url, keywords, selectors) *)

KeywordLists == { << >>, <<"Market">>, <<"FORUM">>, <<"zzz", "market">> }

SelectorLists == UNION {[1..n -> {".none", ".post", ".item"}] : n \in 0..MaxSelectors}

ScrapeUrls == {UrlA, UrlB, UrlD, UrlS, UrlClear}

InitScrape ==
    /\ keywords \in KeywordLists
    /\ selectors \in SelectorLists
    /\ max_items \in ItemCaps
    /\ \E u \in ScrapeUrls : call = [op |-> "scrape_content", state |-> "called", url |-> u]
    /\ net_gets = 0
    /\ sleeps = 0
    /\ CrawlAtRest
    /\ GuiAtRest

scrape_content ==
    /\ call.op = "scrape_content"
    /\ call.state = "called"
    /\ \E resp \in Responses(call.url) :
          LET sc == ScrapeContent(call.url, keywords, selectors, max_items, resp)
          IN  /\ call' = [op |-> "scrape_content", state |-> "returned", url |-> call.url,
                          resp |-> resp, data |-> sc.data]
              /\ net_gets' = net_gets + sc.call.gets
              /\ sleeps' = sleeps + sc.call.sleeps
    /\ UNCHANGED <<keywords, selectors, max_items, max_depth, max_pages, is_scraping,
                   crawlVars, guiVars>>

NextScrape == scrape_content

SpecScrape == InitScrape /\ [][NextScrape]_vars

(* extract_onion_links(soup, base_url) *)

HrefUniverse == {UrlC, UrlD, UrlClear, UrlFtp, HrefRootRel, HrefPathRel, HrefHttpd}

AnchorLists == UNION {[1..n -> HrefUniverse] : n \in 0..MaxAnchors}

BaseUrls == {UrlA, UrlD, UrlFtp}

InitLinks ==
    /\ \E as \in AnchorLists, b \in BaseUrls :
          call = [op |-> "extract_onion_links", state |-> "called",
                  anchors |-> as, base_url |-> b]
    /\ keywords = <<>>
    /\ selectors = <<>>
    /\ max_items = 1
    /\ net_gets = 0
    /\ sleeps = 0
    /\ CrawlAtRest
    /\ GuiAtRest

extract_onion_links ==
    /\ call.op = "extract_onion_links"
    /\ call.state = "called"
    /\ \E out \in Listings(ExtractOnionLinks([anchors |-> call.anchors, elems |-> <<>>],
                                             call.base_url)) :
          call' = [op |-> "extract_onion_links", state |-> "returned",
                   anchors |-> call.anchors, base_url |-> call.base_url, links |-> out]
    /\ UNCHANGED <<keywords, selectors, max_items, max_depth, max_pages, is_scraping,
                   net_gets, sleeps, crawlVars, guiVars>>

NextLinks == extract_onion_links

SpecLinks == InitLinks /\ [][NextLinks]_vars

(* search_onion_directories(custom_words, num_results) *)

\* the hrefs of the title links of a result page, in document order; <<>> is
\* a link without href (a.get('href') is None)
ResultHrefs == {UrlC, UrlD, UrlClear, <<>>}

ResultPages == UNION {[1..n -> ResultHrefs] : n \in 0..MaxAnchors}

\* where an exception is raised inside the try block, if anywhere
Failures == {"none", "request", "parse", "sleep"}

SearchResult(found, gets, naps, raised) ==
    [results |-> found, gets |-> gets, sleeps |-> naps, raised |-> raised]

\* the loop over the title links, from link i on
RECURSIVE Collect(_, _, _, _)
Collect(hrefs, i, found, num_results) ==
    IF i > Len(hrefs) THEN found
    ELSE LET href == hrefs[i]
             r    == IF href # <<>> /\ Contains(href, ONION)
                     THEN Append(found, href) ELSE found
         IN  IF Len(r) >= num_results THEN r
             ELSE Collect(hrefs, i + 1, r, num_results)

\* the try without its except clause
SearchOnionDirectoriesNoCatch(hrefs, num_results, failure) ==
    IF failure \in {"request", "parse"} THEN SearchResult(<<>>, 1, 0, TRUE)
    ELSE SearchResult(Collect(hrefs, 1, <<>>, num_results), 1,
                      IF failure = "sleep" THEN 0 ELSE 1, failure = "sleep")

SearchOnionDirectories(hrefs, num_results, failure) ==
    IF failure \in {"request", "parse"} THEN SearchResult(<<>>, 1, 0, FALSE)
    ELSE SearchResult(Collect(hrefs, 1, <<>>, num_results), 1,
                      IF failure = "sleep" THEN 0 ELSE 1, FALSE)

InitSearch ==
    /\ \E n \in 0..MaxResults :
          call = [op |-> "search_onion_directories", state |-> "called", num_results |-> n]
    /\ keywords = <<>>
    /\ selectors = <<>>
    /\ max_items = 1
    /\ net_gets = 0
    /\ sleeps = 0
    /\ CrawlAtRest
    /\ GuiAtRest

search_onion_directories ==
    /\ call.op = "search_onion_directories"
    /\ call.state = "called"
    /\ \E hrefs \in ResultPages, failure \in Failures :
          LET sr == SearchOnionDirectories(hrefs, call.num_results, failure)
          IN  /\ call' = [op |-> "search_onion_directories",
                          state |-> IF sr.raised THEN "raised" ELSE "returned",
                          num_results |-> call.num_results,
                          hrefs |-> hrefs, failure |-> failure, results |-> sr.results]
              /\ net_gets' = net_gets + sr.gets
              /\ sleeps' = sleeps + sr.sleeps
    /\ UNCHANGED <<keywords, selectors, max_items, max_depth, max_pages, is_scraping,
                   crawlVars, guiVars>>

NextSearch == search_onion_directories

SpecSearch == InitSearch /\ [][NextSearch]_vars

(* get_page(url), called several times on one scraper *)

FetchUrls == {UrlA, UrlClear, UrlFtp, UrlFtpClear, HrefPathRel}

InitFetch ==
    /\ call = [op |-> "get_page", history |-> <<>>]
    /\ keywords = <<>>
    /\ selectors = <<>>
    /\ max_items = 1
    /\ net_gets = 0
    /\ sleeps = 0
    /\ CrawlAtRest
    /\ GuiAtRest

get_page ==
    /\ call.op = "get_page"
    /\ Len(call.history) < MaxCalls
    /\ \E u \in FetchUrls :
          \E resp \in Responses(u) :
             LET r == GetPage(u, resp)
             IN  /\ call' = [op |-> "get_page",
                             history |-> Append(call.history, [url |-> u, kind |-> r.kind])]
                 /\ net_gets' = net_gets + r.gets
                 /\ sleeps' = sleeps + r.sleeps
    /\ UNCHANGED <<keywords, selectors, max_items, max_depth, max_pages, is_scraping,
                   crawlVars, guiVars>>

NextFetch == get_page

SpecFetch == InitFetch /\ [][NextFetch]_vars

----------------------------------------------------------------------------
(* DarkWebScraperGUI: the handlers of the Tk main loop and the worker threads.
   workers[w] is the position of the w-th thread started by start_scraping:
   "search" (in search_onion_directories), "crawl" (in crawl_onion), "done"
   (returned) or "failed" (left by an exception).  after_q holds the
   callbacks posted with root.after(0, ...), which the main loop runs in
   order; run is the worker that posted the callback. *)

Callback(fn, run, data) == [fn |-> fn, run |-> run, data |-> data]

\* what crawl_onion can return to scrape_data
CrawlData == { <<>>, ScrapeContent(UrlA, <<>>, <<>>, MaxItems, <<DocA1>>).data }

\* the values of a row of the results table
Row(item) ==
    [text |-> Truncate(item.text, 100), link |-> PySliceTo(item.link, 80),
     tag |-> item.tag, source |-> PySliceTo(item.source, 60)]

Running(w) == workers[w] \in {"search", "crawl"}

InitGui ==
    /\ call = NoCall
    /\ keywords = <<>>
    /\ selectors = <<>>
    /\ max_items = 1
    /\ net_gets = 0
    /\ sleeps = 0
    /\ CrawlAtRest
    /\ GuiAtRest

\* the Start button; custom_words is what the entry holds
start_scraping ==
    /\ start_button = "normal"
    /\ Len(workers) < MaxRuns
    /\ \E custom_words \in {"", "market"} :
          IF is_scraping \/ custom_words = ""
          THEN UNCHANGED <<is_scraping, guiVars>>
          ELSE /\ is_scraping' = TRUE
               /\ start_button' = "disabled"
               /\ stop_button' = "normal"
               /\ progress' = "Searching"
               /\ log' = Logged(log, "INFO", "Searching for onion sites")
               /\ workers' = Append(workers, "search")
               /\ UNCHANGED <<after_q, scraped_data, tree>>
    /\ UNCHANGED <<keywords, selectors, max_items, max_depth, max_pages,
                   net_gets, sleeps, call, crawlVars>>

\* scrape_data up to the return of search_onion_directories
worker_search ==
    /\ \E w \in DOMAIN workers :
          /\ workers[w] = "search"
          /\ \E outcome \in {"raised", "none", "found"} :
                CASE outcome = "raised" ->
                        /\ workers' = [workers EXCEPT ![w] = "failed"]
                        /\ after_q' = after_q \o << Callback("log_error", w, <<>>),
                                                    Callback("showerror", w, <<>>),
                                                    Callback("scraping_finished", w, <<>>) >>
                  [] outcome = "none" ->
                        /\ workers' = [workers EXCEPT ![w] = "done"]
                        /\ after_q' = after_q \o << Callback("log_initialized", w, <<>>),
                                                    Callback("log_no_urls", w, <<>>),
                                                    Callback("scraping_finished", w, <<>>),
                                                    Callback("scraping_finished", w, <<>>) >>
                  [] outcome = "found" ->
                        /\ workers' = [workers EXCEPT ![w] = "crawl"]
                        /\ after_q' = after_q \o << Callback("log_initialized", w, <<>>),
                                                    Callback("log_found", w, <<>>) >>
    /\ UNCHANGED <<keywords, selectors, max_items, max_depth, max_pages, is_scraping,
                   net_gets, sleeps, call, crawlVars,
                   progress, start_button, stop_button, scraped_data, tree, log>>

\* scrape_data from the return of crawl_onion on
worker_crawl ==
    /\ \E w \in DOMAIN workers :
          /\ workers[w] = "crawl"
          /\ \E data \in CrawlData :
                /\ workers' = [workers EXCEPT ![w] = "done"]
                /\ after_q' = after_q \o << Callback("update_results", w, data),
                                            Callback("scraping_finished", w, <<>>) >>
    /\ UNCHANGED <<keywords, selectors, max_items, max_depth, max_pages, is_scraping,
                   net_gets, sleeps, call, crawlVars,
                   progress, start_button, stop_button, scraped_data, tree, log>>

scraping_finished ==
    /\ is_scraping' = FALSE
    /\ start_button' = "normal"
    /\ stop_button' = "disabled"
    /\ progress' = "Completed"
    /\ UNCHANGED <<scraped_data, tree, log>>

update_results(data) ==
    IF data = <<>>
    THEN /\ log' = Logged(log, "WARNING", "No data found during crawl")
         /\ UNCHANGED <<is_scraping, progress, start_button, stop_button, scraped_data, tree>>
    ELSE /\ scraped_data' = data
         /\ tree' = IF is_scraping THEN [i \in DOMAIN data |-> Row(data[i])] ELSE <<>>
         /\ log' = Logged(log, "INFO", "Successfully crawled items")
         /\ UNCHANGED <<is_scraping, progress, start_button, stop_button>>

log_message(level, message) ==
    /\ log' = Logged(log, level, message)
    /\ UNCHANGED <<is_scraping, progress, start_button, stop_button, scraped_data, tree>>

\* the main loop runs the oldest posted callback
run_callback ==
    /\ after_q # <<>>
    /\ after_q' = Tail(after_q)
    /\ LET cb == Head(after_q)
       IN  CASE cb.fn = "scraping_finished" -> scraping_finished
             [] cb.fn = "update_results" -> update_results(cb.data)
             [] cb.fn = "log_initialized" -> log_message("INFO", "Initialized dark web scraper")
             [] cb.fn = "log_no_urls" -> log_message("WARNING", "No .onion URLs found")
             [] cb.fn = "log_found" -> log_message("INFO", "Found seed .onion URLs")
             [] cb.fn = "log_error" -> log_message("ERROR", "Crawling error")
             [] cb.fn = "showerror" ->
                    UNCHANGED <<is_scraping, progress, start_button, stop_button,
                                scraped_data, tree, log>>
    /\ UNCHANGED <<keywords, selectors, max_items, max_depth, max_pages,
                   net_gets, sleeps, call, crawlVars, workers>>

\* the Clear button
clear_results ==
    /\ Cardinality({i \in DOMAIN log : log[i] = <<"INFO", "Results cleared">>}) < MaxClears
    /\ tree' = <<>>
    /\ scraped_data' = <<>>
    /\ progress' = "Ready"
    /\ log' = Logged(log, "INFO", "Results cleared")
    /\ UNCHANGED <<keywords, selectors, max_items, max_depth, max_pages, is_scraping,
                   net_gets, sleeps, call, crawlVars,
                   start_button, stop_button, workers, after_q>>

NextGui ==
    \/ start_scraping
    \/ stop_scraping
    \/ worker_search
    \/ worker_crawl
    \/ run_callback
    \/ clear_results

SpecGui == InitGui /\ [][NextGui]_vars

----------------------------------------------------------------------------
(* Helpers of the properties *)

RECURSIVE DataUpTo(_)
\* the records of the first n processed pages, concatenated in processing order
DataUpTo(n) == IF n = 0 THEN <<>> ELSE DataUpTo(n - 1) \o trace[n].data

FirstIndex(seq, x) == CHOOSE i \in 1..Len(seq) : seq[i] = x /\ \A j \in 1..(i - 1) : seq[j] # x

Allowed(url) == StartsWith(url, HTTP) \/ StartsWith(url, HTTPS)

----------------------------------------------------------------------------
(* C1: in every run of crawl_onion no location is marked visited more than
   once, the visited set is exactly the set of processed locations, and the
   number of processed locations never exceeds max_pages. *)
NoRevisitWithinPageCap ==
    /\ \A i, j \in 1..Len(trace) : i # j => trace[i].url # trace[j].url
    /\ visited = {trace[i].url : i \in 1..Len(trace)}
    /\ Len(trace) <= max_pages
    /\ pages_crawled <= max_pages

\* a duplicated seed has been dequeued a second time and dropped
C1_Witness ==
    /\ start_urls = <<UrlA, UrlA>>
    /\ max_depth = 0
    /\ pc = "loop"
    /\ q = <<>>
    /\ Len(trace) = 1
    /\ pages_crawled < max_pages

(* C2: once stop_scraping has cleared is_scraping after the first page was
   fetched, the crawl loop fetches no further location and adds nothing to
   the results: it returns the records accumulated so far. *)
StopCeasesDequeuing ==
    [][(~is_scraping /\ pc = "loop" /\ net_gets >= 1)
          => (net_gets' = net_gets /\ results' = results)]_vars

(* C3: locations are processed breadth-first: processed depths never
   decrease along the run, seeds are processed in seed order, and with seeds
   A, B, A linking to C, B linking to D and max_depth >= 1 the first four
   processed locations are A, B, C, D when A and B are fetched successfully. *)
BreadthFirstOrder ==
    /\ \A i, j \in 1..Len(trace) : i < j => trace[i].depth <= trace[j].depth
    /\ \A i, j \in 1..Len(trace) :
          (i < j /\ trace[j].depth = 0) =>
              FirstIndex(start_urls, trace[i].url) < FirstIndex(start_urls, trace[j].url)
    /\ (/\ start_urls = <<UrlA, UrlB>>
        /\ max_depth >= 1
        /\ Len(trace) >= 4
        /\ trace[1].kind = "Ok"
        /\ trace[2].kind = "Ok")
       => <<trace[1].url, trace[2].url, trace[3].url, trace[4].url>>
              = <<UrlA, UrlB, UrlC, UrlD>>

C3_Witness ==
    /\ start_urls = <<UrlA, UrlB>>
    /\ Len(trace) = 4
    /\ trace[3].depth = 1
    /\ trace[4].url = UrlD

(* C4 as stated: once max_items (>= 1) records have been accumulated the
   loop has ended: nothing more is fetched or accumulated. *)
LoopEndsAtItemCap ==
    [][(pc = "loop" /\ max_items >= 1 /\ Len(results) >= max_items)
          => (net_gets' = net_gets /\ results' = results)]_vars

(* C4 amended: the loop ends only when the frontier is empty or
   pages_crawled has reached max_pages; the item cap never ends it. *)
LoopEndsOnlyOnFrontierOrPageCap ==
    pc = "done" => (q = <<>> \/ pages_crawled >= max_pages)

\* a page was processed after max_items records had been accumulated
C4_Witness ==
    /\ max_items >= 1
    /\ \E n \in 1..(Len(trace) - 1) : Len(DataUpTo(n)) >= max_items

(* C5: a frontier entry whose depth is greater than max_depth is never
   processed; the step that meets it at the head of the queue marks nothing
   visited, issues no request and leaves pages_crawled alone. *)
DeepEntriesDiscarded ==
    /\ [](\A i \in 1..Len(trace) : trace[i].depth <= max_depth)
    /\ [][(pc = "loop" /\ LoopCond /\ Head(q)[2] > max_depth)
             => /\ visited' = visited
                /\ net_gets' = net_gets
                /\ pages_crawled' = pages_crawled
                /\ trace' = trace
                /\ q' \in {q, Tail(q)}]_vars

\* with max_depth < 0 a seed has been dequeued and discarded
C5_Witness ==
    /\ max_depth < 0
    /\ pc = "loop"
    /\ Len(start_urls) = 2
    /\ Len(q) = 1
    /\ visited = {}
    /\ pages_crawled = 0
    /\ net_gets = 0

(* C6 as stated: get_page sleeps after every fetch attempt, whether the
   request succeeded or failed. *)
SleepAfterEveryAttempt ==
    \A i \in 1..Len(fetch_log) : fetch_log[i].gets = 1 => fetch_log[i].sleeps = 1

(* C6 amended: get_page sleeps for the delay exactly when the request
   succeeded and its body was parsed; after a failed request, and after a
   rejected location, it returns without sleeping. *)
SleepOnlyAfterSuccess ==
    /\ \A i \in 1..Len(fetch_log) :
          /\ fetch_log[i].sleeps = (IF fetch_log[i].kind = "Ok" THEN 1 ELSE 0)
          /\ fetch_log[i].kind = "TransportError" => fetch_log[i].gets = 1
    /\ sleeps <= net_gets

\* a request has failed
C6_Witness ==
    \E i \in 1..Len(fetch_log) :
        fetch_log[i].kind = "TransportError" /\ fetch_log[i].gets = 1

(* C7 as stated: every location without the marker ".onion", whatever its
   scheme, gets the DomainNotAllowed outcome and no request. *)
NonOnionIsDomainNotAllowed ==
    \A i \in 1..Len(fetch_log) :
        ~Contains(fetch_log[i].url, ONION)
            => (fetch_log[i].kind = "DomainNotAllowed" /\ fetch_log[i].gets = 0)

(* C7 amended: a location without the marker ".onion" never causes a
   request; it gets the DomainNotAllowed outcome when it begins with http://
   or https://, and the InvalidScheme outcome otherwise. *)
NonOnionNeverRequested ==
    /\ \A i \in 1..Len(fetch_log) :
          ~Contains(fetch_log[i].url, ONION)
              => /\ fetch_log[i].gets = 0
                 /\ fetch_log[i].kind = (IF Allowed(fetch_log[i].url)
                                         THEN "DomainNotAllowed"
                                         ELSE "InvalidScheme")
    /\ \A i \in 1..Len(trace) : ~Contains(trace[i].url, ONION) => trace[i].kind # "Ok"

\* an http location without the marker has been given to get_page
C7_Witness ==
    \E i \in 1..Len(fetch_log) :
        fetch_log[i].url = UrlClear /\ fetch_log[i].kind = "DomainNotAllowed"

(* C8: the list crawl_onion returns is the concatenation of the per-page
   record lists in processing order, cut to its first max_items elements;
   it is never longer than max_items, and each page's records carry that
   page as their source. *)
ReturnIsTruncatedConcatenation ==
    /\ \A i \in 1..Len(trace) :
          \A k \in 1..Len(trace[i].data) : trace[i].data[k].source = trace[i].url
    /\ pc = "done" =>
          /\ ret = SubSeq(DataUpTo(Len(trace)), 1, Min(max_items, Len(DataUpTo(Len(trace)))))
          /\ Len(ret) <= max_items

\* records of two pages were collected and the return cut them
C8_Witness ==
    /\ pc = "done"
    /\ max_items >= 1
    /\ Len(ret) = max_items
    /\ Len(results) > max_items
    /\ \E i, j \in 1..Len(trace) : i < j /\ trace[i].data # <<>> /\ trace[j].data # <<>>

(* C9: no fetch outcome aborts the crawl: no exception leaves crawl_onion,
   a location whose fetch was rejected or failed contributes no records and
   no links, and pages_crawled counts it like any other processed location. *)
FetchFailureNeverAborts ==
    /\ pc # "raised"
    /\ pages_crawled = Len(trace)
    /\ \A i \in 1..Len(trace) :
          trace[i].kind # "Ok" => (trace[i].data = <<>> /\ trace[i].links = {})

\* after a failed request the loop went on to the next entry
C9_Witness ==
    /\ Len(trace) = 2
    /\ trace[1].kind = "TransportError"
    /\ trace[2].kind = "Ok"
    /\ pages_crawled = 2

(* C10: entries are added to the frontier only by a step that processed a
   successfully fetched page of depth < max_depth; each added entry is at that
   depth + 1, contains the marker ".onion" and is not in the visited set. *)
LinksEnqueuedFromFetchedPage ==
    [][q' # q =>
          /\ q # <<>>
          /\ Len(q') >= Len(q) - 1
          /\ SubSeq(q', 1, Len(q) - 1) = Tail(q)
          /\ LET added == SubSeq(q', Len(q), Len(q'))
             IN  added # <<>> =>
                    /\ Len(trace') = Len(trace) + 1
                    /\ trace'[Len(trace')].kind = "Ok"
                    /\ trace'[Len(trace')].url = Head(q)[1]
                    /\ Head(q)[2] < max_depth
                    /\ \A i \in 1..Len(added) :
                          /\ added[i][2] = Head(q)[2] + 1
                          /\ Contains(added[i][1], ONION)
                          /\ added[i][1] \notin visited']_vars

\* the page of A (links to C, to a clearnet site and to itself) put C alone in the frontier
C10_Witness ==
    /\ start_urls = <<UrlA>>
    /\ max_depth = 1
    /\ Len(trace) = 1
    /\ trace[1].kind = "Ok"
    /\ q = <<Entry(UrlC, 1)>>

(* C11: scrape_content never returns more than max_items records for one
   page, whatever the value of max_items (0 included). *)
PerPageCap ==
    \A i \in 1..Len(trace) : Len(trace[i].data) <= max_items

\* the first n elements of s
FirstN(s, n) == SubSeq(s, 1, Min(n, Len(s)))

\* the positions of the selectors that match at least one element of doc
Matching(doc, sels) ==
    {i \in 1..Len(sels) : \E k \in 1..Len(doc.elems) : sels[i] \in doc.elems[k].css}

Least(S) == CHOOSE i \in S : \A j \in S : i <= j

ScrapeReturned ==
    call.op = "scrape_content" /\ call.state = "returned" /\ call.resp # <<>>

(* C12: the first selector that matches an element wins and the candidates
   are its first max_items matches; the default tag scan is used exactly when
   no selector was supplied or none matched. *)
FirstMatchingSelectorWins ==
    ScrapeReturned =>
        LET doc == call.resp[1]
            m   == Matching(doc, selectors)
        IN  IF m # {}
            THEN call.data = RecordsOf(FirstN(Select(doc, selectors[Least(m)]), max_items),
                                       keywords, call.url)
            ELSE call.data = RecordsOf(FindAll(doc, DefaultTags, max_items),
                                       keywords, call.url)

(* C13: a candidate element yields a record exactly when its text has at
   least 20 characters and, with keywords supplied, one of them occurs in it
   whatever the case; the records keep the candidates' order, carry at most
   500 characters of text and the page as source. *)
ContentFilter ==
    ScrapeReturned =>
        LET cands == Candidates(call.resp[1], selectors, max_items)
            Hit(e) == \E i \in 1..Len(keywords) :
                          \E w \in e.text.words : Lower(keywords[i]) = Lower(w)
            Kept(e) == e.text.len >= 20 /\ (keywords = <<>> \/ Hit(e))
            kept  == SelectSeq(cands, Kept)
        IN  /\ Len(call.data) = Len(kept)
            /\ \A k \in 1..Len(kept) :
                  /\ call.data[k].text.id = kept[k].text.id
                  /\ call.data[k].text.len = Min(kept[k].text.len, 500)
                  /\ call.data[k].text.len <= 500
                  /\ call.data[k].tag = kept[k].tag
                  /\ call.data[k].source = call.url

\* of the two candidates of .post on page S, the upper-case 20-character one
\* is dropped for the keyword and the 501-character one is kept, cut to 500
C13_Witness ==
    /\ ScrapeReturned
    /\ call.url = UrlS
    /\ keywords = <<"FORUM">>
    /\ selectors = <<".post">>
    /\ Len(Candidates(call.resp[1], selectors, max_items)) = 2
    /\ Len(call.data) = 1
    /\ call.data[1].text.len = 500

Letters ==
    {"a","b","c","d","e","f","g","h","i","j","k","l","m",
     "n","o","p","q","r","s","t","u","v","w","x","y","z"}

\* a reference is absolute when it begins with a scheme: letters, then ":"
HasScheme(h) ==
    \E i \in 2..Len(h) : h[i] = ":" /\ \A j \in 1..(i - 1) : h[j] \in Letters

LinksReturned == call.op = "extract_onion_links" /\ call.state = "returned"

(* C14: extract_onion_links returns no duplicates; every element comes from a
   reference containing ".onion" and is that reference unchanged when it is
   absolute, or the scheme+host prefix of base_url followed by the reference
   when it begins with "/"; a reference that is neither never appears. *)
LinksAbsoluteOrRootRelative ==
    LinksReturned =>
        LET hrefs == {call.anchors[i] : i \in DOMAIN call.anchors}
            out   == call.links
        IN  /\ \A i, j \in DOMAIN out : i # j => out[i] # out[j]
            /\ \A k \in DOMAIN out :
                  \E h \in hrefs :
                     /\ Contains(h, ONION)
                     /\ \/ HasScheme(h) /\ out[k] = h
                        \/ StartsWith(h, <<"/">>) /\ out[k] = OnionHost(call.base_url) \o h
            /\ \A h \in hrefs :
                  (~HasScheme(h) /\ ~StartsWith(h, <<"/">>)) =>
                      \A k \in DOMAIN out : out[k] # h

SearchEnded ==
    call.op = "search_onion_directories" /\ call.state \in {"returned", "raised"}

(* C15: search_onion_directories returns at most num_results locations, for
   every num_results >= 0, and every one of them contains ".onion". *)
SearchCapped ==
    (SearchEnded /\ call.state = "returned") =>
        /\ Len(call.results) <= call.num_results
        /\ \A k \in DOMAIN call.results : Contains(call.results[k], ONION)

(* C16: any failure inside search_onion_directories (request, parsing, or
   the sleep after the results were collected) makes it return an empty list,
   and it never raises. *)
SearchFailureGivesEmpty ==
    SearchEnded =>
        /\ call.state = "returned"
        /\ call.failure # "none" => call.results = <<>>

IsOnionHref(h) == Contains(h, ONION)

(* C16 as the code has it: a failure of the request or of the parsing gives
   an empty list; a failure of the sleep gives the locations collected before
   it, which are the first onion references of the page; it never raises. *)
SearchFailureNeverRaises ==
    SearchEnded =>
        LET onions == SelectSeq(call.hrefs, IsOnionHref)
        IN  /\ call.state = "returned"
            /\ call.failure \in {"request", "parse"} => call.results = <<>>
            /\ call.failure = "sleep" =>
                  /\ Len(call.results) <= Len(onions)
                  /\ call.results = FirstN(onions, Len(call.results))
                  /\ call.num_results >= 1 =>
                        Len(call.results) = Min(call.num_results, Len(onions))

\* the sleep fails after two locations were collected, and both are returned
C16_Witness ==
    /\ SearchEnded
    /\ call.failure = "sleep"
    /\ call.state = "returned"
    /\ Len(call.results) = 2

\* a location get_page does not admit: no http:// or https:// scheme, or no
\* ".onion" in it
Inadmissible(url) ==
    \/ ~(StartsWith(url, HTTP) \/ StartsWith(url, HTTPS))
    \/ ~Contains(url, ONION)

(* C17: a get_page call on an inadmissible location issues no GET, performs
   no sleep and changes no scraper or crawl state, and it gives the same
   error kind as every earlier call on the same location. *)
AdmissionIdempotent ==
    [][ (call.op = "get_page" /\ Len(call'.history) = Len(call.history) + 1
           /\ Inadmissible(call'.history[Len(call'.history)].url))
        => LET this == call'.history[Len(call'.history)]
           IN  /\ net_gets' = net_gets
               /\ sleeps' = sleeps
               /\ UNCHANGED <<keywords, selectors, max_items, max_depth, max_pages,
                              is_scraping, crawlVars>>
               /\ this.kind \in {"InvalidScheme", "DomainNotAllowed"}
               /\ \A i \in DOMAIN call.history :
                     call.history[i].url = this.url => call.history[i].kind = this.kind
      ]_vars

\* a clearnet location refused, a page fetched, the same location refused again
C17_Witness ==
    /\ call.op = "get_page"
    /\ Len(call.history) = 3
    /\ call.history[1] = [url |-> UrlClear, kind |-> "DomainNotAllowed"]
    /\ call.history[2] = [url |-> UrlA, kind |-> "Ok"]
    /\ call.history[3] = [url |-> UrlClear, kind |-> "DomainNotAllowed"]
    /\ net_gets = 1
    /\ sleeps = 1

(* C18: at most one crawl worker is running at any time: start_scraping
   never starts a worker while an earlier one has not finished. *)
AtMostOneWorker ==
    Cardinality({w \in DOMAIN workers : Running(w)}) <= 1

(* C19: a run that was stopped by the user or that failed is never
   afterwards reported as completed; the stopped state is left only by a new
   start (or by clearing the results, which shows the idle text). *)
StoppedOrFailedNeverCompleted ==
    [][ /\ progress = "Stopped" => progress' \in {"Stopped", "Searching", "Ready"}
        /\ (progress' = "Completed" /\ after_q # <<>> /\ after_q' = Tail(after_q))
              => workers[Head(after_q).run] # "failed"
      ]_vars

(* C20: crawl_onion terminates: whatever the seeds, the link graph (cycles
   and self-links included), max_pages and max_depth, the loop eventually
   exits and the method returns. *)
CrawlTerminates == <>(pc = "done")

\* the crawl has returned with the page cap not reached, after a page that
\* links to itself and an iteration that discarded the repeated seed without
\* counting a page
C20_Witness ==
    /\ pc = "done"
    /\ q = <<>>
    /\ pages_crawled < max_pages
    /\ Len(start_urls) = 2
    /\ start_urls[1] = start_urls[2]
    /\ Len(trace) >= 2
    /\ \E i \in 1..Len(trace) : trace[i].url \in trace[i].links

(* C21: during one crawl each processed admissible location causes exactly
   one network GET (and at most one pacing delay), and the GETs issued by
   crawl_onion never number more than max_pages. *)
OneGetPerPage ==
    [][ (Len(trace') = Len(trace) + 1 /\ ~Inadmissible(trace'[Len(trace')].url))
        => /\ net_gets' = net_gets + 1
           /\ sleeps' <= sleeps + 1
           /\ net_gets' <= max_pages
      ]_vars

(* C22: for each processed page whose links are enqueued, the records added
   to the results and the links come from one and the same fetched document:
   never links with content of another response or content lost to a failed
   fetch. *)
LinksAndContentFromOneDocument ==
    \A i \in 1..Len(trace) :
       (trace[i].kind = "Ok" /\ trace[i].links # {}) =>
          \E d \in Web(trace[i].url) :
             /\ trace[i].links = ExtractOnionLinks(d, trace[i].url)
             /\ trace[i].data = ScrapeContent(trace[i].url, keywords, selectors,
                                              max_items, <<d>>).data

(* C24: at the start of every iteration of the crawl loop pages_crawled
   equals the size of the visited set, and the visited set only grows. *)
PagesCrawledCountsVisited ==
    /\ [](pc = "loop" => pages_crawled = Cardinality(visited))
    /\ [][visited \subseteq visited']_vars

\* the loop test is reached after a fetch that failed, a location that was
\* refused and a page that was fetched
C24_Witness ==
    /\ pc = "loop"
    /\ pages_crawled = 3
    /\ Cardinality(visited) = 3
    /\ \E i \in 1..Len(trace) : trace[i].kind = "TransportError"
    /\ \E i \in 1..Len(trace) : trace[i].kind = "DomainNotAllowed"
    /\ \E i \in 1..Len(trace) : trace[i].kind = "Ok"

(* C25: when max_depth >= 0 every entry of the frontier has a depth between
   0 and max_depth, so the depth test at dequeue time never discards an
   entry: an entry is discarded exactly when its location was visited. *)
FrontierDepthBounded ==
    max_depth >= 0 =>
        /\ \A i \in DOMAIN q : 0 <= q[i][2] /\ q[i][2] <= max_depth
        /\ (pc = "loop" /\ LoopCond) =>
              (ShouldSkip(Head(q)[1], Head(q)[2]) <=> Head(q)[1] \in visited)

\* the frontier holds an entry at depth max_depth >= 1, and the entry at its
\* head is about to be discarded because its location was visited
C25_Witness ==
    /\ pc = "loop"
    /\ LoopCond
    /\ max_depth >= 1
    /\ \E i \in DOMAIN q : q[i][2] = max_depth
    /\ Head(q)[1] \in visited
    /\ ShouldSkip(Head(q)[1], Head(q)[2])

(* C23: while the worker of the latest run is running and the user has not
   stopped it, is_scraping stays true and Start stays disabled: only the
   user's stop clears them, never the completion callback of an earlier
   run. *)
RunningKeepsIsScraping ==
    [][ (is_scraping /\ workers # <<>> /\ Running(Len(workers))
           /\ Running(Len(workers))')
        => \/ is_scraping' /\ start_button' = "disabled"
           \/ log' = Logged(log, "WARNING", "Crawling stopped by user")
      ]_vars

====
